---- MODULE Spec2Model ----
(***************************************************************************)
(* Clinical-trials PTS dashboard (src/src/App.jsx): the state hooks        *)
(* useFilters, useTrialsData, useAnalytics, useChatbot, the trial detail   *)
(* modal and the render gating of ClinicalTrialsDashboard, as a state      *)
(* machine.  One action per event handler or promise continuation.  An     *)
(* action covers the handler together with the re-render and the effects   *)
(* the re-render runs (React flushes them before the next event).  The     *)
(* pure functions (applyClientSideFilters, dashboardMetrics, the DataService*)
(* operations, generateMockChatResponse) are operators, called directly.   *)
(*                                                                         *)
(* Not modelled: timestamps of chat messages, the avgPTS text of the       *)
(* dashboard metrics, chart data (ptsDistribution, sponsor rollups), the   *)
(* descriptions of the failure features, the stubbed export.               *)
(***************************************************************************)
EXTENDS Integers, Sequences, FiniteSets, TLC

VARIABLES
    strictMode,     \* the build double-invokes mount effects (root.render in StrictMode, development build)
    mounted,        \* the dashboard's mount effects have run
    filters,        \* useFilters state
    trials, totalTrials, loading, error,   \* useTrialsData state
    trialReqs,      \* list-trials requests in flight, in issue order
    trialsFor,      \* history: the filter state captured by the request whose data is stored in trials
    analyticsData, aLoading, aError,       \* useAnalytics state
    analyticsReqs,  \* number of analytics requests in flight
    activeTab, selectedTrial, currentMessage,   \* ClinicalTrialsDashboard state
    messages, isProcessing,                \* useChatbot state
    chatReqs,       \* chat requests in flight (the message each carries)
    shapData, loadingShap, shapError,      \* TrialDetailModal state (initial values while unmounted)
    shapReqs,       \* SHAP requests in flight: trial id, and whether the issuing modal instance is still mounted
    uncaught,       \* an exception escaped an event handler
    lastEvent,      \* history: the handler or continuation that ran last, with its arguments
    call            \* the last direct call of a pure function: name, arguments, result

filterVars    == <<filters>>
trialsVars    == <<trials, totalTrials, loading, error, trialReqs, trialsFor>>
analyticsVars == <<analyticsData, aLoading, aError, analyticsReqs>>
chatVars      == <<messages, isProcessing, chatReqs, currentMessage>>
modalVars     == <<shapData, loadingShap, shapError, shapReqs>>
vars == <<strictMode, mounted, filters, trials, totalTrials, loading, error, trialReqs,
          trialsFor, analyticsData, aLoading, aError, analyticsReqs, activeTab,
          selectedTrial, currentMessage, messages, isProcessing, chatReqs, shapData,
          loadingShap, shapError, shapReqs, uncaught, lastEvent, call>>

\* JavaScript null for the error states (a string, like the messages it stands beside).
NoError == "null"

\* An absent value (null) is the empty sequence, a present value x is <<x>>.
Null == <<>>
Some(x) == <<x>>

Event(name) == [name |-> name]

RemoveAt(s, i) == [j \in 1..(Len(s) - 1) |-> IF j < i THEN s[j] ELSE s[j + 1]]

-----------------------------------------------------------------------------
(* Sample data of the remote API.                                          *)

T1 == [id |-> "T1", pts |-> 85, therapeuticArea |-> "Oncology", sponsor |-> "Pfizer", hasORR |-> TRUE]
T2 == [id |-> "T2", pts |-> 20, therapeuticArea |-> "Cardiology", sponsor |-> "Roche", hasORR |-> FALSE]
T3 == [id |-> "T3", pts |-> 50, therapeuticArea |-> "Oncology", sponsor |-> "Roche", hasORR |-> TRUE]

\* Trial lists a list-trials response may carry.
TrialLists == {<<>>, <<T1, T2>>, <<T3>>}

\* Failure texts: a non-success status (`HTTP error! status: ${response.status}`) and a transport error.
HttpErrorText == "HTTP error! status: 500"
TransportErrorText == "Failed to fetch"
ErrorTexts == {HttpErrorText, TransportErrorText}

-----------------------------------------------------------------------------
(* useFilters                                                              *)

\* useState({ ... }): the initial filter state.
InitialFilters ==
    [therapeuticArea |-> "", sponsor |-> "", ptsRange |-> <<0, 100>>, status |-> "",
     searchTerm |-> "", page |-> 1, limit |-> 20, sort |-> "pts", order |-> "desc"]

FilterKeys == {"therapeuticArea", "sponsor", "ptsRange", "status", "searchTerm",
               "page", "limit", "sort", "order"}

\* Values an update may carry for each field.
FilterValues(key) ==
    CASE key = "therapeuticArea" -> {"", "Oncology"}
      [] key = "sponsor"         -> {"", "Pfizer"}
      [] key = "status"          -> {"", "Recruiting"}
      [] key = "searchTerm"      -> {"", "T1"}
      [] key = "ptsRange"        -> {<<0, 100>>, <<50, 100>>}
      [] key = "page"            -> {1, 2}
      [] key = "limit"           -> {20, 50}
      [] key = "sort"            -> {"pts", "enrollment"}
      [] key = "order"           -> {"desc", "asc"}

\* An updateFilter that sets the field and leaves the page alone.
UpdateFilterStateKeepPage(prev, key, value) ==
    [prev EXCEPT ![key] = value]

\* An update whose literal names page before the computed key: ({ ...prev, page: 1,
\* [key]: value }), so that an update of page keeps its value.
UpdateFilterStatePageFirst(prev, key, value) ==
    [[prev EXCEPT !.page = 1] EXCEPT ![key] = value]

\* setFilters((prev) => ({ ...prev, [key]: value, page: 1 }))
UpdateFilterState(prev, key, value) ==
    [[prev EXCEPT ![key] = value] EXCEPT !.page = 1]

\* A clearFilters that leaves the page size at the gateway's documented default of 50.
ClearFilterStateLimit50 ==
    [therapeuticArea |-> "", sponsor |-> "", ptsRange |-> <<0, 100>>, status |-> "",
     searchTerm |-> "", page |-> 1, limit |-> 50, sort |-> "pts", order |-> "desc"]

\* setFilters({ therapeuticArea: "", ..., order: "desc" }): the literal clearFilters stores.
ClearFilterState ==
    [therapeuticArea |-> "", sponsor |-> "", ptsRange |-> <<0, 100>>, status |-> "",
     searchTerm |-> "", page |-> 1, limit |-> 20, sort |-> "pts", order |-> "desc"]

-----------------------------------------------------------------------------
(* DataService.fetchTrials and useTrialsData                               *)

\* The params object useTrialsData.fetchTrials hands to DataService.fetchTrials.
FetchParams(f) ==
    [page |-> f.page, limit |-> f.limit, sort |-> f.sort, order |-> f.order,
     therapeuticArea |-> f.therapeuticArea, status |-> f.status,
     sponsor |-> f.sponsor, searchTerm |-> f.searchTerm]

\* The names URLSearchParams holds: sort and order always, the others when truthy.
QueryKeys(p) ==
    {"sort", "order"}
      \cup (IF p.therapeuticArea # "" THEN {"filter[therapeuticArea]"} ELSE {})
      \cup (IF p.status # "" THEN {"filter[status]"} ELSE {})
      \cup (IF p.sponsor # "" THEN {"filter[sponsor]"} ELSE {})
      \cup (IF p.searchTerm # "" THEN {"search"} ELSE {})

\* The query string of GET /api/trials, as a map from parameter name to value.
Query(p) ==
    [k \in QueryKeys(p) |->
        CASE k = "sort"  -> (IF p.sort = "" THEN "pts" ELSE p.sort)
          [] k = "order" -> (IF p.order = "" THEN "desc" ELSE p.order)
          [] k = "filter[therapeuticArea]" -> p.therapeuticArea
          [] k = "filter[status]" -> p.status
          [] k = "filter[sponsor]" -> p.sponsor
          [] k = "search" -> p.searchTerm]

\* A request in flight: the filter state its closure captured and the query it sent.
TrialRequest(f) == [filters |-> f, query |-> Query(FetchParams(f))]

\* An effect that compares the parameters the request sends, by value.
FetchEffectRunsByValue(prev, next) == FetchParams(prev) # FetchParams(next)

\* Whether the fetch effect runs after setFilters replaced prev by next.  The callback
\* depends on [filters] and the effect on [fetchTrials]; setFilters always stores a new
\* object, so the dependency differs (Object.is) after every call, whatever the values.
FetchEffectRuns(prev, next) == TRUE

-----------------------------------------------------------------------------
(* Render gating of ClinicalTrialsDashboard                                *)

ViewOf(l, al, e, ae) ==
    IF l \/ al THEN "loading"
    ELSE IF e # NoError \/ ae # NoError THEN "error"
    ELSE "dashboard"

View == ViewOf(loading, aLoading, error, aError)

Tabs == {"overview", "explorer", "explainability", "sponsors", "chatbot"}

\* The detail modal is an overlay of the dashboard view.
ModalMountedIn(sel, view) == sel # Null /\ view = "dashboard"
ModalMounted == ModalMountedIn(selectedTrial, View)

\* Requests of an unmounted modal instance stay in flight; their setState calls do nothing.
Orphaned(reqs) == [i \in 1..Len(reqs) |-> [reqs[i] EXCEPT !.live = FALSE]]

\* Most SHAP requests in flight explored (a modal is not mounted beyond it).
MaxShapReqs == 4

\* fetchShapData of the mount effect: once, twice under StrictMode.
ShapIssue(reqs, id) ==
    LET r == [trialId |-> id, live |-> TRUE]
    IN  IF strictMode THEN reqs \o <<r, r>> ELSE reqs \o <<r>>

\* A modal whose explanation state lives in the parent and survives the unmount.
ModalReconcileKeepsData(sel, view) ==
    LET was == ModalMounted
        now == ModalMountedIn(sel, view)
    IN  IF now /\ ~was
        THEN /\ Len(shapReqs) + 2 <= MaxShapReqs
             /\ shapReqs' = ShapIssue(shapReqs, sel[1].id)
             /\ UNCHANGED <<shapData, loadingShap, shapError>>
        ELSE IF was /\ ~now
        THEN /\ shapReqs' = Orphaned(shapReqs)
             /\ UNCHANGED <<shapData, loadingShap, shapError>>
        ELSE UNCHANGED modalVars

\* The modal after a re-render with selected trial sel and view `view`.
ModalReconcile(sel, view) ==
    LET was == ModalMounted
        now == ModalMountedIn(sel, view)
    IN  IF now /\ ~was
        THEN /\ Len(shapReqs) + 2 <= MaxShapReqs
             /\ shapData' = Null
             /\ loadingShap' = TRUE
             /\ shapError' = NoError
             /\ shapReqs' = ShapIssue(shapReqs, sel[1].id)
        ELSE IF was /\ ~now
        THEN /\ shapData' = Null
             /\ loadingShap' = TRUE
             /\ shapError' = NoError
             /\ shapReqs' = Orphaned(shapReqs)
        ELSE UNCHANGED modalVars

-----------------------------------------------------------------------------
(* Initial render                                                          *)

Init ==
    /\ strictMode \in BOOLEAN
    /\ mounted = FALSE
    /\ filters = InitialFilters
    /\ trials = <<>>
    /\ totalTrials = 0
    /\ loading = TRUE
    /\ error = NoError
    /\ trialReqs = <<>>
    /\ trialsFor = Null
    /\ analyticsData = Null
    /\ aLoading = TRUE
    /\ aError = NoError
    /\ analyticsReqs = 0
    /\ activeTab = "overview"
    /\ selectedTrial = Null
    /\ currentMessage = <<>>
    /\ messages = <<>>
    /\ isProcessing = FALSE
    /\ chatReqs = <<>>
    /\ shapData = Null
    /\ loadingShap = TRUE
    /\ shapError = NoError
    /\ shapReqs = <<>>
    /\ uncaught = FALSE
    /\ lastEvent = Event("init")
    /\ call = [fn |-> "none"]

-----------------------------------------------------------------------------
(* Data flow: mount, filter changes, responses, retry                      *)

\* The synchronous head of useTrialsData.fetchTrials with filter state f, n times.
StartFetchTrials(f, n) ==
    /\ loading' = TRUE
    /\ error' = NoError
    /\ trialReqs' = trialReqs \o [i \in 1..n |-> TrialRequest(f)]
    /\ UNCHANGED <<trials, totalTrials, trialsFor>>

\* The mount effects of useTrialsData and useAnalytics.
Mount ==
    /\ ~mounted
    /\ mounted' = TRUE
    /\ LET n == IF strictMode THEN 2 ELSE 1
       IN  /\ StartFetchTrials(filters, n)
           /\ aLoading' = TRUE
           /\ aError' = NoError
           /\ analyticsReqs' = analyticsReqs + n
           /\ UNCHANGED analyticsData
    /\ lastEvent' = Event("mount")
    /\ UNCHANGED <<strictMode, filters, activeTab, selectedTrial, chatVars, modalVars,
                   uncaught, call>>

\* The filter controls of the explorer tab are on screen and not covered by the modal.
FilterControlsShown ==
    mounted /\ View = "dashboard" /\ activeTab = "explorer" /\ selectedTrial = Null

\* What a committed filter state sets off: the fetchTrials callback is rebuilt when its
\* dependencies changed, and the effect then issues a request.
AfterFilterChange(f) ==
    /\ filters' = f
    /\ IF FetchEffectRuns(filters, f)
       THEN /\ StartFetchTrials(f, 1)
            /\ ModalReconcile(selectedTrial, "loading")
       ELSE /\ UNCHANGED trialsVars
            /\ ModalReconcile(selectedTrial, View)

updateFilter(key, value) ==
    /\ FilterControlsShown
    /\ AfterFilterChange(UpdateFilterState(filters, key, value))
    /\ lastEvent' = [name |-> "updateFilter", key |-> key, value |-> value]
    /\ UNCHANGED <<strictMode, mounted, analyticsVars, activeTab, selectedTrial, chatVars,
                   uncaught, call>>

clearFilters ==
    /\ FilterControlsShown
    /\ AfterFilterChange(ClearFilterState)
    /\ lastEvent' = Event("clearFilters")
    /\ UNCHANGED <<strictMode, mounted, analyticsVars, activeTab, selectedTrial, chatVars,
                   uncaught, call>>

\* A commit that drops the response of a request issued for another filter state.
CommitTrialsIfCurrent(req, data) ==
    IF req.filters = filters
    THEN /\ trials' = data
         /\ totalTrials' = Len(data)
         /\ trialsFor' = Some(req.filters)
    ELSE UNCHANGED <<trials, totalTrials, trialsFor>>

\* The data committed by a successful list-trials response.
CommitTrials(req, data) ==
    /\ trials' = data
    /\ totalTrials' = Len(data)
    /\ trialsFor' = Some(req.filters)

\* Request i resolves with `data`: setTrials, setTotalTrials, finally setLoading(false).
TrialsFetched(i, data) ==
    /\ i \in 1..Len(trialReqs)
    /\ CommitTrials(trialReqs[i], data)
    /\ loading' = FALSE
    /\ trialReqs' = RemoveAt(trialReqs, i)
    /\ ModalReconcile(selectedTrial, ViewOf(FALSE, aLoading, error, aError))
    /\ lastEvent' = Event("trialsFetched")
    /\ UNCHANGED <<strictMode, mounted, filters, error, analyticsVars, activeTab,
                   selectedTrial, chatVars, uncaught, call>>

\* A failure handler that also empties the list (setTrials([]), setTotalTrials(0)).
TrialsFailedClearsList(i, text) ==
    /\ i \in 1..Len(trialReqs)
    /\ error' = text
    /\ loading' = FALSE
    /\ trials' = <<>>
    /\ totalTrials' = 0
    /\ trialReqs' = RemoveAt(trialReqs, i)
    /\ ModalReconcile(selectedTrial, ViewOf(FALSE, aLoading, text, aError))
    /\ lastEvent' = Event("trialsFailed")
    /\ UNCHANGED <<strictMode, mounted, filters, trialsFor,
                   analyticsVars, activeTab, selectedTrial, chatVars, uncaught, call>>

\* Request i rejects: setError(err.message), finally setLoading(false).
TrialsFailed(i, text) ==
    /\ i \in 1..Len(trialReqs)
    /\ error' = text
    /\ loading' = FALSE
    /\ trialReqs' = RemoveAt(trialReqs, i)
    /\ ModalReconcile(selectedTrial, ViewOf(FALSE, aLoading, text, aError))
    /\ lastEvent' = Event("trialsFailed")
    /\ UNCHANGED <<strictMode, mounted, filters, trials, totalTrials, trialsFor,
                   analyticsVars, activeTab, selectedTrial, chatVars, uncaught, call>>

\* Analytics snapshots (the summary) a response may carry.
Snapshot(total, high, low) ==
    [summary |-> [totalTrials |-> total, highRiskTrials |-> high, lowRiskTrials |-> low]]

AnalyticsSnapshots == {Snapshot(100, 30, 40), Snapshot(0, 0, 0)}

AnalyticsFetched(snap) ==
    /\ analyticsReqs > 0
    /\ analyticsData' = Some(snap)
    /\ aLoading' = FALSE
    /\ analyticsReqs' = analyticsReqs - 1
    /\ ModalReconcile(selectedTrial, ViewOf(loading, FALSE, error, aError))
    /\ lastEvent' = Event("analyticsFetched")
    /\ UNCHANGED <<strictMode, mounted, filters, trialsVars, aError, activeTab,
                   selectedTrial, chatVars, uncaught, call>>

AnalyticsFailed(text) ==
    /\ analyticsReqs > 0
    /\ aError' = text
    /\ aLoading' = FALSE
    /\ analyticsReqs' = analyticsReqs - 1
    /\ ModalReconcile(selectedTrial, ViewOf(loading, FALSE, error, text))
    /\ lastEvent' = Event("analyticsFailed")
    /\ UNCHANGED <<strictMode, mounted, filters, trialsVars, analyticsData, activeTab,
                   selectedTrial, chatVars, uncaught, call>>

\* JavaScript undefined, among values that are strings.
Undefined == "undefined"

\* e?.message of a hook's error state e: the hooks store err.message, a string, and a
\* string has no property `message`; null?.message is undefined as well.
MessageOf(e) == IF e = NoError \/ e \in ErrorTexts THEN Undefined ELSE e.message

\* a || b
OrElse(a, b) == IF a \in {Undefined, NoError, ""} THEN b ELSE a

\* The text the full-view error panel renders: error?.message || analytics.error?.message.
PanelErrorText == OrElse(MessageOf(error), MessageOf(aError))

\* What the error panel's "Try Again" runs: onRetry={refetch}, the trials hook's fetchTrials.
PanelRetryEffect ==
    /\ StartFetchTrials(filters, 1)
    /\ UNCHANGED analyticsVars

\* "Try Again" on the full-view error panel.
PanelRetry ==
    /\ mounted
    /\ View = "error"
    /\ PanelRetryEffect
    /\ ModalReconcile(selectedTrial, "loading")
    /\ lastEvent' = Event("panelRetry")
    /\ UNCHANGED <<strictMode, mounted, filters, activeTab, selectedTrial, chatVars,
                   uncaught, call>>

\* A tab button of the dashboard view.
setActiveTab(tab) ==
    /\ mounted
    /\ View = "dashboard"
    /\ selectedTrial = Null
    /\ activeTab' = tab
    /\ lastEvent' = Event("setActiveTab")
    /\ UNCHANGED <<strictMode, mounted, filters, trialsVars, analyticsVars, selectedTrial,
                   chatVars, modalVars, uncaught, call>>

\* Keys and tabs the data-flow specification exercises.
FlowKeys == {"searchTerm", "ptsRange", "sort"}
FlowTabs == {"overview", "explorer"}

Next ==
    \/ Mount
    \/ \E key \in FlowKeys : \E value \in FilterValues(key) : updateFilter(key, value)
    \/ clearFilters
    \/ \E i \in 1..Len(trialReqs) : \E data \in TrialLists : TrialsFetched(i, data)
    \/ \E i \in 1..Len(trialReqs) : \E text \in ErrorTexts : TrialsFailed(i, text)
    \/ \E snap \in AnalyticsSnapshots : AnalyticsFetched(snap)
    \/ \E text \in ErrorTexts : AnalyticsFailed(text)
    \/ PanelRetry
    \/ \E tab \in FlowTabs : setActiveTab(tab)

Spec == Init /\ [][Next]_vars

NextFilters ==
    \/ Mount
    \/ \E key \in FilterKeys : \E value \in FilterValues(key) : updateFilter(key, value)
    \/ clearFilters
    \/ \E i \in 1..Len(trialReqs) : TrialsFetched(i, <<T1, T2>>)
    \/ AnalyticsFetched(Snapshot(100, 30, 40))
    \/ setActiveTab("explorer")

\* The production build: effects run once.
InitProduction == Init /\ ~strictMode

\* Every filter field, in the production build.
SpecFilters == InitProduction /\ [][NextFilters]_vars

-----------------------------------------------------------------------------
(* useChatbot and the assistant tab                                        *)

\* Texts are sequences of characters.
IsWhitespace(c) == c \in {" ", "\n", "\t"}

RECURSIVE TrimStart(_)
TrimStart(s) ==
    IF s # <<>> /\ IsWhitespace(Head(s)) THEN TrimStart(Tail(s)) ELSE s

RECURSIVE TrimEnd(_)
TrimEnd(s) ==
    IF s # <<>> /\ IsWhitespace(s[Len(s)]) THEN TrimEnd(SubSeq(s, 1, Len(s) - 1)) ELSE s

\* String.prototype.trim
Trim(s) == TrimEnd(TrimStart(s))

\* The two suggestion buttons of the empty chat.
SuggestedQueries ==
    {<<"L", "i", "s", "t", " ", "T", "o", "p", " ", "T", "r", "i", "a", "l", "s", " ", "w", "i", "t", "h", " ", "P", "T", "S", " ", ">", " ", "5", "0", "%", "?">>,
     <<"L", "i", "s", "t", " ", "a", "l", "l", " ", "t", "r", "i", "a", "l", "s", " ", "w", "i", "t", "h", " ", "O", "v", "e", "r", "a", "l", "l", " ", "S", "u", "r", "v", "i", "v", "a", "l", " ", "R", "a", "t", "e", " ", "a", "s", " ", "a", "n", " ", "e", "n", "d", "p", "o", "i", "n", "t">>}

\* Texts typed into the chat input.
TypedTexts == {<<>>, <<" ">>, <<"o", "r", "r">>, <<" ", "h", "i", " ">>}

\* Payloads a successful chat response may carry (the envelope's data field).
ChatPayloads ==
    {[type |-> "text", message |-> "There are 2 trials."],
     [type |-> "table", title |-> "Top trials", data |-> <<T1>>]}

\* Longest message log explored.
MaxMessages == 4

UserMessage(message) == [type |-> "user", content |-> message]
BotMessage(response) == [type |-> "bot", content |-> response]

\* The message the catch block appends.
ApologyMessage ==
    [type |-> "bot",
     content |-> [type |-> "text",
                  message |-> "Sorry, I encountered an error processing your request."]]

ChatShown ==
    mounted /\ View = "dashboard" /\ activeTab = "chatbot" /\ selectedTrial = Null

\* onChange of the chat input (disabled while processing).
typeMessage(text) ==
    /\ ChatShown
    /\ ~isProcessing
    /\ currentMessage' = text
    /\ lastEvent' = Event("typeMessage")
    /\ UNCHANGED <<strictMode, mounted, filters, trialsVars, analyticsVars, activeTab,
                   selectedTrial, messages, isProcessing, chatReqs, modalVars, uncaught, call>>

\* A suggestion button, shown while the log is empty.
pickSuggestion(query) ==
    /\ ChatShown
    /\ Len(messages) = 0
    /\ currentMessage' = query
    /\ lastEvent' = Event("pickSuggestion")
    /\ UNCHANGED <<strictMode, mounted, filters, trialsVars, analyticsVars, activeTab,
                   selectedTrial, messages, isProcessing, chatReqs, modalVars, uncaught, call>>

\* A sendMessage whose guard tests the message without trimming it (if (!message) return).
SendMessageStartNoTrim(message) ==
    IF message = <<>>
    THEN UNCHANGED <<messages, isProcessing, chatReqs>>
    ELSE /\ messages' = Append(messages, UserMessage(message))
         /\ isProcessing' = TRUE
         /\ chatReqs' = Append(chatReqs, [message |-> message])

\* A sendMessage that puts the user message at the head of the log.
SendMessageStartPrepends(message) ==
    IF Trim(message) = <<>>
    THEN UNCHANGED <<messages, isProcessing, chatReqs>>
    ELSE /\ messages' = <<UserMessage(message)>> \o messages
         /\ isProcessing' = TRUE
         /\ chatReqs' = Append(chatReqs, [message |-> message])

\* sendMessage up to its await: the guard, the user message, the flag, the request.
SendMessageStart(message) ==
    IF Trim(message) = <<>>
    THEN UNCHANGED <<messages, isProcessing, chatReqs>>
    ELSE /\ messages' = Append(messages, UserMessage(message))
         /\ isProcessing' = TRUE
         /\ chatReqs' = Append(chatReqs, [message |-> message])

\* handleSendMessage: Enter in the input, or the send button (both disabled while
\* processing; the button also on a blank input).  A blank message returns at once and
\* the input is cleared.
handleSendMessage ==
    /\ ChatShown
    /\ ~isProcessing
    /\ Len(messages) < MaxMessages
    /\ SendMessageStart(currentMessage)
    /\ currentMessage' = IF Trim(currentMessage) = <<>> THEN <<>> ELSE currentMessage
    /\ lastEvent' = [name |-> "sendMessage", blank |-> (Trim(currentMessage) = <<>>)]
    /\ UNCHANGED <<strictMode, mounted, filters, trialsVars, analyticsVars, activeTab,
                   selectedTrial, modalVars, uncaught, call>>

\* A catch block that appends the apology and leaves the flag set.
ChatCatchKeepProcessing ==
    /\ messages' = Append(messages, ApologyMessage)
    /\ isProcessing' = isProcessing
    /\ uncaught' = uncaught

\* catch and finally of sendMessage: the apology is appended, nothing is rethrown, the
\* flag is reset.
ChatCatch ==
    /\ messages' = Append(messages, ApologyMessage)
    /\ isProcessing' = FALSE
    /\ uncaught' = uncaught

\* A success path that appends the response and leaves the flag set.
ChatThenKeepProcessing(response) ==
    /\ messages' = Append(messages, BotMessage(response))
    /\ isProcessing' = isProcessing
    /\ uncaught' = uncaught

\* The try block after the await, and finally: the response is appended, the flag reset.
ChatThen(response) ==
    /\ messages' = Append(messages, BotMessage(response))
    /\ isProcessing' = FALSE
    /\ uncaught' = uncaught

\* Chat request i resolves; sendMessage finishes and handleSendMessage clears the input.
ChatResolved(i, response) ==
    /\ i \in 1..Len(chatReqs)
    /\ ChatThen(response)
    /\ chatReqs' = RemoveAt(chatReqs, i)
    /\ currentMessage' = <<>>
    /\ lastEvent' = Event("chatResolved")
    /\ UNCHANGED <<strictMode, mounted, filters, trialsVars, analyticsVars, activeTab,
                   selectedTrial, modalVars, call>>

\* Chat request i rejects: a transport error, a non-success status, an unreadable body.
ChatRejected(i, text) ==
    /\ i \in 1..Len(chatReqs)
    /\ ChatCatch
    /\ chatReqs' = RemoveAt(chatReqs, i)
    /\ currentMessage' = <<>>
    /\ lastEvent' = [name |-> "chatRejected", text |-> text]
    /\ UNCHANGED <<strictMode, mounted, filters, trialsVars, analyticsVars, activeTab,
                   selectedTrial, modalVars, call>>

\* The "Clear Chat" button (never disabled).
clearMessages ==
    /\ ChatShown
    /\ messages' = <<>>
    /\ lastEvent' = Event("clearMessages")
    /\ UNCHANGED <<strictMode, mounted, filters, trialsVars, analyticsVars, activeTab,
                   selectedTrial, isProcessing, chatReqs, currentMessage, modalVars,
                   uncaught, call>>

NextChat ==
    \/ Mount
    \/ \E i \in 1..Len(trialReqs) : TrialsFetched(i, <<T1, T2>>)
    \/ AnalyticsFetched(Snapshot(100, 30, 40))
    \/ setActiveTab("chatbot")
    \/ \E text \in TypedTexts : typeMessage(text)
    \/ \E query \in SuggestedQueries : pickSuggestion(query)
    \/ handleSendMessage
    \/ \E i \in 1..Len(chatReqs) : \E response \in ChatPayloads : ChatResolved(i, response)
    \/ \E i \in 1..Len(chatReqs) : \E text \in ErrorTexts : ChatRejected(i, text)
    \/ clearMessages

SpecChat == Init /\ [][NextChat]_vars

-----------------------------------------------------------------------------
(* generateMockChatResponse: the local fallback matcher of the assistant   *)

\* String.prototype.toLowerCase, character by character.
LowerChar(c) ==
    CASE c = "A" -> "a" [] c = "B" -> "b" [] c = "C" -> "c" [] c = "D" -> "d" [] c = "E" -> "e"
      [] c = "F" -> "f" [] c = "G" -> "g" [] c = "H" -> "h" [] c = "I" -> "i" [] c = "J" -> "j"
      [] c = "K" -> "k" [] c = "L" -> "l" [] c = "M" -> "m" [] c = "N" -> "n" [] c = "O" -> "o"
      [] c = "P" -> "p" [] c = "Q" -> "q" [] c = "R" -> "r" [] c = "S" -> "s" [] c = "T" -> "t"
      [] c = "U" -> "u" [] c = "V" -> "v" [] c = "W" -> "w" [] c = "X" -> "x" [] c = "Y" -> "y"
      [] c = "Z" -> "z"
      [] OTHER -> c

toLowerCase(s) == [i \in 1..Len(s) |-> LowerChar(s[i])]

\* String.prototype.includes
includes(s, sub) ==
    \E i \in 0..(Len(s) - Len(sub)) : SubSeq(s, i + 1, i + Len(sub)) = sub

\* The substrings the rules look for.
HighestPtsText == <<"h", "i", "g", "h", "e", "s", "t", " ", "p", "t", "s">>
OncologyText == <<"o", "n", "c", "o", "l", "o", "g", "y">>
SponsorsText == <<"s", "p", "o", "n", "s", "o", "r", "s">>
PtsOver80Text == <<"p", "t", "s", " ", ">", " ", "8", "0">>
ObjectiveResponseRateText == <<"o", "b", "j", "e", "c", "t", "i", "v", "e", " ", "r", "e", "s", "p", "o", "n", "s", "e", " ", "r", "a", "t", "e">>
OrrText == <<"o", "r", "r">>
Top5FeaturesText == <<"t", "o", "p", " ", "5", " ", "f", "e", "a", "t", "u", "r", "e", "s">>
FailuresText == <<"f", "a", "i", "l", "u", "r", "e", "s">>

\* Array.prototype.slice(0, n)
Slice(s, n) == SubSeq(s, 1, IF Len(s) < n THEN Len(s) ELSE n)

\* Array.prototype.sort((a, b) => b.pts - a.pts): stable, descending by pts.
RECURSIVE InsertByPts(_, _)
InsertByPts(sorted, t) ==
    IF sorted = <<>> THEN <<t>>
    ELSE IF Head(sorted).pts >= t.pts THEN <<Head(sorted)>> \o InsertByPts(Tail(sorted), t)
    ELSE <<t>> \o sorted

RECURSIVE SortByPtsDesc(_)
SortByPtsDesc(s) ==
    IF s = <<>> THEN <<>>
    ELSE InsertByPts(SortByPtsDesc(SubSeq(s, 1, Len(s) - 1)), s[Len(s)])

\* Rule 1: the five oncology trials of the context with the highest pts.
OncologyTable(context) ==
    LET IsOncology(t) == t.therapeuticArea = "Oncology"
    IN  [type |-> "table",
         title |-> "Top 5 Oncology Trials by PTS Score",
         data |-> Slice(SortByPtsDesc(SelectSeq(context, IsOncology)), 5),
         columns |-> <<"id", "sponsor", "pts", "enrollment", "status">>]

\* highPTSSponsors after the forEach: one entry per sponsor of a trial with pts > 80, in
\* the order the sponsors first occur, with the number of such trials.
RECURSIVE SponsorEntries(_)
SponsorEntries(context) ==
    IF context = <<>> THEN <<>>
    ELSE LET before == SponsorEntries(SubSeq(context, 1, Len(context) - 1))
             trial == context[Len(context)]
             known == {i \in 1..Len(before) : before[i].sponsor = trial.sponsor}
         IN  IF ~(trial.pts > 80) THEN before
             ELSE IF known = {} THEN Append(before, [sponsor |-> trial.sponsor, count |-> 1])
             ELSE [i \in 1..Len(before) |->
                     IF i \in known THEN [before[i] EXCEPT !.count = @ + 1] ELSE before[i]]

\* sort((a, b) => b[1] - a[1]): stable, descending by count.
RECURSIVE InsertByCount(_, _)
InsertByCount(sorted, e) ==
    IF sorted = <<>> THEN <<e>>
    ELSE IF Head(sorted).count >= e.count THEN <<Head(sorted)>> \o InsertByCount(Tail(sorted), e)
    ELSE <<e>> \o sorted

RECURSIVE SortByCountDesc(_)
SortByCountDesc(s) ==
    IF s = <<>> THEN <<>>
    ELSE InsertByCount(SortByCountDesc(SubSeq(s, 1, Len(s) - 1)), s[Len(s)])

\* Rule 2: `${sponsor}: ${count} trials` of the five sponsors with the most such trials.
SponsorList(context) ==
    LET top == Slice(SortByCountDesc(SponsorEntries(context)), 5)
    IN  [type |-> "list",
         title |-> "Sponsors with Most High-PTS Trials (>80%)",
         data |-> [i \in 1..Len(top) |-> <<top[i].sponsor, ": ", top[i].count, " trials">>]]

RECURSIVE SumPts(_)
SumPts(s) == IF s = <<>> THEN 0 ELSE Head(s).pts + SumPts(Tail(s))

\* (n / d).toFixed(1) for integers n >= 0 and d >= 0, in tenths; 0 / 0 is NaN.
ToFixed1(n, d) ==
    IF d = 0 THEN [nan |-> TRUE, tenths |-> 0]
    ELSE [nan |-> FALSE, tenths |-> (20 * n + d) \div (2 * d)]

\* Rule 3: the trials of the context with an ORR endpoint.
OrrSummary(context) ==
    LET HasORR(t) == t.hasORR
        orrTrials == SelectSeq(context, HasORR)
    IN  [type |-> "summary",
         title |-> "Trials with Objective Response Rate (ORR) Endpoint",
         count |-> Len(orrTrials),
         percentage |-> ToFixed1(Len(orrTrials) * 100, Len(context)),
         avgPTS |-> ToFixed1(SumPts(orrTrials), Len(orrTrials))]

\* Rule 4: a fixed list (name and impact of each feature).
FailureFeatures ==
    [type |-> "features",
     title |-> "Top 5 Features Contributing to Trial Failures",
     features |-> <<[name |-> "Inadequate Enrollment Size", impact |-> "23%"],
                    [name |-> "Extended Study Duration", impact |-> "18%"],
                    [name |-> "Lack of Biomarker Strategy", impact |-> "15%"],
                    [name |-> "Single-Country Studies", impact |-> "12%"],
                    [name |-> "Unclear Primary Endpoints", impact |-> "10%"]>>]

DefaultResponse ==
    [type |-> "text",
     message |-> "I understand your query, but I need more specific information to provide accurate insights. Try asking about specific sponsors, therapeutic areas, or trial characteristics."]

\* A matcher that looks for the ORR endpoint first.
generateMockChatResponseOrrFirst(query, context) ==
    LET lowerQuery == toLowerCase(query)
    IN  IF includes(lowerQuery, ObjectiveResponseRateText) \/ includes(lowerQuery, OrrText)
        THEN OrrSummary(context)
        ELSE IF includes(lowerQuery, HighestPtsText) /\ includes(lowerQuery, OncologyText)
        THEN OncologyTable(context)
        ELSE IF includes(lowerQuery, SponsorsText) /\ includes(lowerQuery, PtsOver80Text)
        THEN SponsorList(context)
        ELSE IF includes(lowerQuery, Top5FeaturesText) /\ includes(lowerQuery, FailuresText)
        THEN FailureFeatures
        ELSE DefaultResponse

\* A matcher that looks for the substrings in the query as typed.
generateMockChatResponseCaseSensitive(query, context) ==
    LET lowerQuery == query
    IN  IF includes(lowerQuery, HighestPtsText) /\ includes(lowerQuery, OncologyText)
        THEN OncologyTable(context)
        ELSE IF includes(lowerQuery, SponsorsText) /\ includes(lowerQuery, PtsOver80Text)
        THEN SponsorList(context)
        ELSE IF includes(lowerQuery, ObjectiveResponseRateText) \/ includes(lowerQuery, OrrText)
        THEN OrrSummary(context)
        ELSE IF includes(lowerQuery, Top5FeaturesText) /\ includes(lowerQuery, FailuresText)
        THEN FailureFeatures
        ELSE DefaultResponse

\* A matcher whose features rule fires on either of its two substrings.
generateMockChatResponseFeaturesOr(query, context) ==
    LET lowerQuery == toLowerCase(query)
    IN  IF includes(lowerQuery, HighestPtsText) /\ includes(lowerQuery, OncologyText)
        THEN OncologyTable(context)
        ELSE IF includes(lowerQuery, SponsorsText) /\ includes(lowerQuery, PtsOver80Text)
        THEN SponsorList(context)
        ELSE IF includes(lowerQuery, ObjectiveResponseRateText) \/ includes(lowerQuery, OrrText)
        THEN OrrSummary(context)
        ELSE IF includes(lowerQuery, Top5FeaturesText) \/ includes(lowerQuery, FailuresText)
        THEN FailureFeatures
        ELSE DefaultResponse

generateMockChatResponse(query, context) ==
    LET lowerQuery == toLowerCase(query)
    IN  IF includes(lowerQuery, HighestPtsText) /\ includes(lowerQuery, OncologyText)
        THEN OncologyTable(context)
        ELSE IF includes(lowerQuery, SponsorsText) /\ includes(lowerQuery, PtsOver80Text)
        THEN SponsorList(context)
        ELSE IF includes(lowerQuery, ObjectiveResponseRateText) \/ includes(lowerQuery, OrrText)
        THEN OrrSummary(context)
        ELSE IF includes(lowerQuery, Top5FeaturesText) /\ includes(lowerQuery, FailuresText)
        THEN FailureFeatures
        ELSE DefaultResponse

-----------------------------------------------------------------------------
(* useFilters.applyClientSideFilters, rows of the explorer table           *)

\* A JavaScript value handed to applyClientSideFilters: an array with its items, or not one.
Arr(items) == [isArray |-> TRUE, items |-> items]

\* A JavaScript value that is not an array: null, undefined, an object, a number.
NotArr(value) == [isArray |-> FALSE, value |-> value]

NonArrayValues == {"null", "undefined", "object", "number"}

\* A filter that starts at the second element of the list.
applyClientSideFiltersSkipFirst(trialsData, ptsRange) ==
    IF ~trialsData.isArray
    THEN <<>>
    ELSE LET Keep(trial) == trial.pts >= ptsRange[1] /\ trial.pts <= ptsRange[2]
         IN  IF trialsData.items = <<>> THEN <<>>
             ELSE SelectSeq(Tail(trialsData.items), Keep)

\* A filter that takes a value that is not an array for a list of one.
applyClientSideFiltersWrapsValue(trialsData, ptsRange) ==
    IF ~trialsData.isArray
    THEN <<trialsData.value>>
    ELSE LET Keep(trial) == trial.pts >= ptsRange[1] /\ trial.pts <= ptsRange[2]
         IN  SelectSeq(trialsData.items, Keep)

\* A filter whose lower bound is exclusive.
applyClientSideFiltersExclusive(trialsData, ptsRange) ==
    IF ~trialsData.isArray
    THEN <<>>
    ELSE LET Keep(trial) == trial.pts > ptsRange[1] /\ trial.pts <= ptsRange[2]
         IN  SelectSeq(trialsData.items, Keep)

applyClientSideFilters(trialsData, ptsRange) ==
    IF ~trialsData.isArray
    THEN <<>>
    ELSE LET Keep(trial) == trial.pts >= ptsRange[1] /\ trial.pts <= ptsRange[2]
         IN  SelectSeq(trialsData.items, Keep)

\* useMemo(() => applyClientSideFilters(fetchedTrials), ...)
filteredTrials == applyClientSideFilters(Arr(trials), filters.ptsRange)

-----------------------------------------------------------------------------
(* TrialDetailModal                                                        *)

\* The explanation the remote returns for a trial.
ShapOf(id) ==
    [trialId |-> id, baseValue |-> 50, predictedPTS |-> 60,
     features |-> <<[feature |-> "enrollment", shapValue |-> 1]>>]

\* The eye button of a row of the explorer table.
openTrial(k) ==
    /\ mounted
    /\ View = "dashboard"
    /\ activeTab = "explorer"
    /\ selectedTrial = Null
    /\ k \in 1..Len(filteredTrials)
    /\ selectedTrial' = Some(filteredTrials[k])
    /\ ModalReconcile(Some(filteredTrials[k]), View)
    /\ lastEvent' = Event("openTrial")
    /\ UNCHANGED <<strictMode, mounted, filters, trialsVars, analyticsVars, activeTab,
                   chatVars, uncaught, call>>

\* The close button of the modal.
closeModal ==
    /\ ModalMounted
    /\ selectedTrial' = Null
    /\ ModalReconcile(Null, View)
    /\ lastEvent' = Event("closeModal")
    /\ UNCHANGED <<strictMode, mounted, filters, trialsVars, analyticsVars, activeTab,
                   chatVars, uncaught, call>>

\* A response that is stored whether or not the modal that asked for it is still there.
ShapFetchedAfterUnmount(i) ==
    /\ i \in 1..Len(shapReqs)
    /\ shapData' = Some(ShapOf(shapReqs[i].trialId))
    /\ loadingShap' = FALSE
    /\ UNCHANGED shapError
    /\ shapReqs' = RemoveAt(shapReqs, i)
    /\ lastEvent' = Event("shapFetched")
    /\ UNCHANGED <<strictMode, mounted, filters, trialsVars, analyticsVars, activeTab,
                   selectedTrial, chatVars, uncaught, call>>

\* SHAP request i resolves: setShapData, finally setLoadingShap(false).
ShapFetched(i) ==
    /\ i \in 1..Len(shapReqs)
    /\ IF shapReqs[i].live
       THEN /\ shapData' = Some(ShapOf(shapReqs[i].trialId))
            /\ loadingShap' = FALSE
            /\ UNCHANGED shapError
       ELSE UNCHANGED <<shapData, loadingShap, shapError>>
    /\ shapReqs' = RemoveAt(shapReqs, i)
    /\ lastEvent' = Event("shapFetched")
    /\ UNCHANGED <<strictMode, mounted, filters, trialsVars, analyticsVars, activeTab,
                   selectedTrial, chatVars, uncaught, call>>

\* A failure handler that also calls onClose: the view closes on a failed fetch.
ShapFailedClosesView(i, text) ==
    /\ i \in 1..Len(shapReqs)
    /\ IF shapReqs[i].live
       THEN /\ selectedTrial' = Null
            /\ shapData' = Null
            /\ loadingShap' = TRUE
            /\ shapError' = NoError
            /\ shapReqs' = Orphaned(RemoveAt(shapReqs, i))
       ELSE /\ shapReqs' = RemoveAt(shapReqs, i)
            /\ UNCHANGED <<selectedTrial, shapData, loadingShap, shapError>>
    /\ lastEvent' = Event("shapFailed")
    /\ UNCHANGED <<strictMode, mounted, filters, trialsVars, analyticsVars, activeTab,
                   chatVars, uncaught, call>>

\* SHAP request i rejects: setShapError(error.message), finally setLoadingShap(false).
ShapFailed(i, text) ==
    /\ i \in 1..Len(shapReqs)
    /\ IF shapReqs[i].live
       THEN /\ shapError' = text
            /\ loadingShap' = FALSE
            /\ UNCHANGED shapData
       ELSE UNCHANGED <<shapData, loadingShap, shapError>>
    /\ shapReqs' = RemoveAt(shapReqs, i)
    /\ lastEvent' = Event("shapFailed")
    /\ UNCHANGED <<strictMode, mounted, filters, trialsVars, analyticsVars, activeTab,
                   selectedTrial, chatVars, uncaught, call>>

\* The modal shows its error panel.
ShapErrorShown == ModalMounted /\ ~loadingShap /\ shapError # NoError

\* onRetry={() => fetchShapData()}: fetchShapData is a const of the effect callback and
\* is not in scope of the render function, so the call throws a ReferenceError; the
\* exception leaves the click handler and no state is set.
ShapRetryEffect ==
    /\ uncaught' = TRUE
    /\ UNCHANGED modalVars

\* "Try Again" on the modal's error panel.
ShapRetry ==
    /\ ShapErrorShown
    /\ ShapRetryEffect
    /\ lastEvent' = Event("shapRetry")
    /\ UNCHANGED <<strictMode, mounted, filters, trialsVars, analyticsVars, activeTab,
                   selectedTrial, chatVars, call>>

NextModal ==
    \/ Mount
    \/ \E i \in 1..Len(trialReqs) : TrialsFetched(i, <<T1, T2>>)
    \/ \E i \in 1..Len(trialReqs) : TrialsFailed(i, HttpErrorText)
    \/ AnalyticsFetched(Snapshot(100, 30, 40))
    \/ PanelRetry
    \/ setActiveTab("explorer")
    \/ \E k \in 1..Len(filteredTrials) : openTrial(k)
    \/ closeModal
    \/ \E i \in 1..Len(shapReqs) : ShapFetched(i)
    \/ \E i \in 1..Len(shapReqs) : \E text \in ErrorTexts : ShapFailed(i, text)
    \/ ShapRetry

SpecModal == Init /\ [][NextModal]_vars

-----------------------------------------------------------------------------
(* DataService: the four gateway operations, as functions of the exchange  *)
(* with the remote.  Texts are sequences of their parts here, so that a    *)
(* template literal keeps the value it interpolates.                       *)

StatusCodes == {200, 404, 500}

\* `${response.status}`
StatusText(status) ==
    CASE status = 200 -> "200" [] status = 404 -> "404" [] status = 500 -> "500"

\* Objects a JSON body may hold: the success envelope, with and without its data field,
\* and error bodies with a message, with an empty one, without one.
Envelopes ==
    {[success |-> TRUE, data |-> "payload"],
     [success |-> TRUE],
     [success |-> FALSE, message |-> <<"Trial not found">>],
     [success |-> FALSE, message |-> <<>>],
     [success |-> FALSE]}

\* A body is JSON text holding an object, or it is not JSON (an HTML page of a proxy).
Bodies ==
    {[json |-> FALSE, value |-> [success |-> FALSE]]}
      \cup {[json |-> TRUE, value |-> e] : e \in Envelopes}

\* What fetch() settles with: a response, or a rejection when no response arrived.
Exchanges ==
    {[arrived |-> FALSE, status |-> 200, body |-> [json |-> FALSE, value |-> [success |-> FALSE]]]}
      \cup {[arrived |-> TRUE, status |-> st, body |-> b] : st \in StatusCodes, b \in Bodies}

\* response.ok
Ok(response) == response.status \in 200..299

\* How a call of an operation ends; `fetches` counts its calls of fetch().
Throw(name, message) == [kind |-> "throw", error |-> name, message |-> message, fetches |-> 1]
Return(value) == [kind |-> "return", value |-> value, fetches |-> 1]

\* The rejection of fetch() and of response.json().
FetchRejected == Throw("TypeError", <<TransportErrorText>>)
JsonRejected == Throw("SyntaxError", <<"Unexpected token '<' is not valid JSON">>)

\* data.data of the parsed body.
DataField(data) == IF "data" \in DOMAIN data THEN data.data ELSE Undefined

DataService_fetchTrials(response) ==
    IF ~response.arrived THEN FetchRejected
    ELSE IF ~Ok(response)
    THEN Throw("Error", <<"HTTP error! status: ", StatusText(response.status)>>)
    ELSE IF ~response.body.json THEN JsonRejected
    ELSE Return(DataField(response.body.value))

DataService_fetchSHAPData(response) ==
    IF ~response.arrived THEN FetchRejected
    ELSE IF ~Ok(response)
    THEN Throw("Error", <<"HTTP error! status: ", StatusText(response.status)>>)
    ELSE IF ~response.body.json THEN JsonRejected
    ELSE Return(DataField(response.body.value))

DataService_fetchAnalytics(response) ==
    IF ~response.arrived THEN FetchRejected
    ELSE IF ~Ok(response)
    THEN Throw("Error", <<"HTTP error! status: ", StatusText(response.status)>>)
    ELSE IF ~response.body.json THEN JsonRejected
    ELSE Return(DataField(response.body.value))

\* On a non-success status the body is parsed first (errorData = await response.json()),
\* then errorData.message || `HTTP error! Status: ${response.status}` is thrown; undefined
\* and the empty string are both falsy.
DataService_sendChatMessage(response) ==
    IF ~response.arrived THEN FetchRejected
    ELSE IF ~Ok(response)
    THEN IF ~response.body.json THEN JsonRejected
         ELSE LET errorData == response.body.value
                  message == IF "message" \in DOMAIN errorData THEN errorData.message ELSE <<>>
              IN  Throw("Error",
                        IF message # <<>> THEN message
                        ELSE <<"HTTP error! Status: ", StatusText(response.status)>>)
    ELSE IF ~response.body.json THEN JsonRejected
    ELSE Return(DataField(response.body.value))

GatewayOps == {"fetchTrials", "fetchSHAPData", "fetchAnalytics", "sendChatMessage"}

DataServiceCall(op, response) ==
    CASE op = "fetchTrials"     -> DataService_fetchTrials(response)
      [] op = "fetchSHAPData"   -> DataService_fetchSHAPData(response)
      [] op = "fetchAnalytics"  -> DataService_fetchAnalytics(response)
      [] op = "sendChatMessage" -> DataService_sendChatMessage(response)

-----------------------------------------------------------------------------
(* Pure functions, called directly                                         *)

appVars == <<strictMode, mounted, filters, trials, totalTrials, loading, error, trialReqs,
             trialsFor, analyticsData, aLoading, aError, analyticsReqs, activeTab,
             selectedTrial, currentMessage, messages, isProcessing, chatReqs, shapData,
             loadingShap, shapError, shapReqs, uncaught, lastEvent>>

\* Longest trial list handed to the PTS-range filter.
MaxTrials == 3

SeqsUpTo(S, n) == UNION {[1..k -> S] : k \in 0..n}

PtsRanges == {<<0, 100>>, <<50, 100>>, <<20, 50>>, <<51, 84>>}

CallApplyClientSideFilters(items, ptsRange) ==
    /\ call' = [fn |-> "applyClientSideFilters", trialsData |-> Arr(items),
                ptsRange |-> ptsRange, ret |-> applyClientSideFilters(Arr(items), ptsRange)]
    /\ UNCHANGED appVars

CallApplyClientSideFiltersNonArray(value, ptsRange) ==
    /\ call' = [fn |-> "applyClientSideFilters", trialsData |-> NotArr(value),
                ptsRange |-> ptsRange, ret |-> applyClientSideFilters(NotArr(value), ptsRange)]
    /\ UNCHANGED appVars

\* Metrics whose medium bucket forgets the low-risk trials.
dashboardMetricsNoLow(data) ==
    IF data = Null
    THEN [highRisk |-> 0, mediumRisk |-> 0, lowRisk |-> 0]
    ELSE LET summary == data[1].summary
         IN  [highRisk    |-> summary.highRiskTrials,
              mediumRisk  |-> summary.totalTrials - summary.highRiskTrials,
              lowRisk     |-> summary.lowRiskTrials,
              totalTrials |-> summary.totalTrials]

\* useAnalytics.dashboardMetrics as a function of analyticsData (the avgPTS text is left out).
dashboardMetrics(data) ==
    IF data = Null
    THEN [highRisk |-> 0, mediumRisk |-> 0, lowRisk |-> 0]
    ELSE LET summary == data[1].summary
         IN  [highRisk    |-> summary.highRiskTrials,
              mediumRisk  |-> summary.totalTrials - summary.highRiskTrials
                                - summary.lowRiskTrials,
              lowRisk     |-> summary.lowRiskTrials,
              totalTrials |-> summary.totalTrials]

\* Counts a snapshot summary may carry.
Counts == {0, 30, 40, 100}

CallDashboardMetrics(data) ==
    /\ call' = [fn |-> "dashboardMetrics", analyticsData |-> data,
                ret |-> dashboardMetrics(data)]
    /\ UNCHANGED appVars

CallDataService(op, response) ==
    /\ call' = [fn |-> op, response |-> response, ret |-> DataServiceCall(op, response)]
    /\ UNCHANGED appVars

NextPure ==
    \/ \E items \in SeqsUpTo({T1, T2, T3}, MaxTrials) : \E ptsRange \in PtsRanges :
          CallApplyClientSideFilters(items, ptsRange)
    \/ \E value \in NonArrayValues : \E ptsRange \in PtsRanges :
          CallApplyClientSideFiltersNonArray(value, ptsRange)
    \/ CallDashboardMetrics(Null)
    \/ \E total \in Counts : \E high \in Counts : \E low \in Counts :
          CallDashboardMetrics(Some(Snapshot(total, high, low)))
    \/ \E op \in GatewayOps : \E response \in Exchanges : CallDataService(op, response)

SpecPure == Init /\ [][NextPure]_vars

\* Phrases the queries handed to the matcher are put together from.
PhraseList ==
    <<<<"H", "i", "g", "h", "e", "s", "t", " ", "P", "T", "S">>,
      <<"o", "n", "c", "o", "l", "o", "g", "y">>,
      <<"s", "p", "o", "n", "s", "o", "r", "s">>,
      <<"p", "t", "s", " ", ">", " ", "8", "0">>,
      <<"o", "r", "r">>,
      <<"O", "b", "j", "e", "c", "t", "i", "v", "e", " ", "R", "e", "s", "p", "o", "n", "s", "e", " ", "R", "a", "t", "e">>,
      <<"t", "o", "p", " ", "5", " ", "f", "e", "a", "t", "u", "r", "e", "s">>,
      <<"f", "a", "i", "l", "u", "r", "e", "s">>,
      <<"h", "e", "l", "l", "o">>,
      <<"t", "o", "m", "o", "r", "r", "o", "w">>>>

RECURSIVE Ascending(_)
Ascending(S) ==
    IF S = {} THEN <<>>
    ELSE LET m == CHOOSE x \in S : \A y \in S : x <= y
         IN  <<m>> \o Ascending(S \ {m})

Reverse(s) == [i \in 1..Len(s) |-> s[Len(s) + 1 - i]]

\* The phrases with the given indices, joined by spaces.
RECURSIVE JoinPhrases(_)
JoinPhrases(order) ==
    IF order = <<>> THEN <<>>
    ELSE IF Len(order) = 1 THEN PhraseList[order[1]]
    ELSE PhraseList[order[1]] \o <<" ">> \o JoinPhrases(Tail(order))

\* Every selection of phrases, in both orders, and the two suggested queries.
Queries ==
    {JoinPhrases(Ascending(S)) : S \in SUBSET (1..Len(PhraseList))}
      \cup {JoinPhrases(Reverse(Ascending(S))) : S \in SUBSET (1..Len(PhraseList))}
      \cup SuggestedQueries

\* Trial contexts: none, a mixed list, more than five oncology trials.
ChatContexts == {<<>>, <<T2, T3, T1>>, <<T3, T1, T3, T1, T3, T1, T2>>}

\* One call in a behaviour: the function keeps no state.
CallGenerateMockChatResponse(query, context) ==
    /\ call.fn = "none"
    /\ call' = [fn |-> "generateMockChatResponse", query |-> query, context |-> context,
                ret |-> generateMockChatResponse(query, context)]
    /\ UNCHANGED appVars

NextMatcher ==
    \E query \in Queries : \E context \in ChatContexts :
        CallGenerateMockChatResponse(query, context)

SpecMatcher == Init /\ [][NextMatcher]_vars

-----------------------------------------------------------------------------
(* Arrays as objects: what a call leaves in the array it is handed.  The   *)
(* heap of a call maps each array the call touches to its contents.        *)

\* The elements of an array.
Elements(s) == {s[i] : i \in 1..Len(s)}

\* Array.prototype.filter: a new array dst with the elements of src the callback accepts
\* (those in `kept`); src is read only.
ArrayFilter(heap, src, dst, kept) ==
    LET Keep(element) == element \in kept
    IN  [heap EXCEPT ![dst] = SelectSeq(heap[src], Keep)]

\* Array.prototype.sort((a, b) => b.pts - a.pts): sorts the array itself, in place.
ArraySort(heap, ref) == [heap EXCEPT ![ref] = SortByPtsDesc(heap[ref])]

\* Array.prototype.slice(0, n): a new array dst.
ArraySlice(heap, src, dst, n) == [heap EXCEPT ![dst] = Slice(heap[src], n)]

\* trialsData.filter(...) of applyClientSideFilters on an array.
applyClientSideFiltersEffect(items, ptsRange) ==
    LET kept == {trial \in Elements(items) :
                    trial.pts >= ptsRange[1] /\ trial.pts <= ptsRange[2]}
    IN  ArrayFilter([trialsData |-> items, returned |-> <<>>], "trialsData", "returned", kept)

\* The heap of a generateMockChatResponse call before any array method has run.
ContextHeap(context) == [context |-> context, filtered |-> <<>>, oncologyTrials |-> <<>>]

\* A rule that sorts the context itself before filtering it.
OncologyRuleEffectSortsContext(context) ==
    LET oncology == {t \in Elements(context) : t.therapeuticArea = "Oncology"}
        sorted == ArraySort(ContextHeap(context), "context")
        filtered == ArrayFilter(sorted, "context", "filtered", oncology)
    IN  ArraySlice(filtered, "filtered", "oncologyTrials", 5)

\* context.filter(...).sort(...).slice(0, 5): sort works on the array filter returned.
OncologyRuleEffect(context) ==
    LET oncology == {t \in Elements(context) : t.therapeuticArea = "Oncology"}
        filtered == ArrayFilter(ContextHeap(context), "context", "filtered", oncology)
        sorted == ArraySort(filtered, "filtered")
    IN  ArraySlice(sorted, "filtered", "oncologyTrials", 5)

\* The heap after generateMockChatResponse: the other rules read the context (forEach,
\* filter, reduce) and sort only the entries array they build.
generateMockChatResponseEffect(query, context) ==
    LET lowerQuery == toLowerCase(query)
    IN  IF includes(lowerQuery, HighestPtsText) /\ includes(lowerQuery, OncologyText)
        THEN OncologyRuleEffect(context)
        ELSE ContextHeap(context)

\* One call in a behaviour, on the stored list `before`.
CallFilterOnList(items, ptsRange) ==
    /\ call.fn = "none"
    /\ call' = [fn |-> "applyClientSideFiltersEffect", before |-> items, ptsRange |-> ptsRange,
                heap |-> applyClientSideFiltersEffect(items, ptsRange),
                ret |-> applyClientSideFilters(Arr(items), ptsRange)]
    /\ UNCHANGED appVars

CallMatcherOnList(query, context) ==
    /\ call.fn = "none"
    /\ call' = [fn |-> "generateMockChatResponseEffect", before |-> context, query |-> query,
                heap |-> generateMockChatResponseEffect(query, context),
                ret |-> generateMockChatResponse(query, context)]
    /\ UNCHANGED appVars

NextFrame ==
    \/ \E items \in SeqsUpTo({T1, T2, T3}, MaxTrials) : \E ptsRange \in PtsRanges :
          CallFilterOnList(items, ptsRange)
    \/ \E query \in Queries : \E context \in ChatContexts : CallMatcherOnList(query, context)

SpecFrame == Init /\ [][NextFrame]_vars

-----------------------------------------------------------------------------
(* Claims                                                                  *)

\* C1: after every updateFilter(key, value) whose key is a filter field other than
\* 'page', the filter state has page = 1.
C1_UpdateResetsPage ==
    (lastEvent.name = "updateFilter" /\ lastEvent.key # "page") => filters.page = 1

\* An update of the PTS range has run and stored its value.
C1_Witness ==
    /\ lastEvent.name = "updateFilter"
    /\ lastEvent.key = "ptsRange"
    /\ filters.ptsRange = <<50, 100>>
    /\ filters.sponsor = "Pfizer"
    /\ filters.page = 1

\* C2: after clearFilters, from any filter state, the filter state is exactly the
\* documented default state, which is also the initial filter state.
C2_ClearYieldsDefaults ==
    lastEvent.name = "clearFilters" =>
        /\ filters = [therapeuticArea |-> "", sponsor |-> "", status |-> "",
                      searchTerm |-> "", ptsRange |-> <<0, 100>>, page |-> 1,
                      limit |-> 20, sort |-> "pts", order |-> "desc"]
        /\ filters = InitialFilters

\* clearFilters has run on a filter state in which several fields were set (the stored
\* list was fetched for that state).
C2_Witness ==
    /\ lastEvent.name = "clearFilters"
    /\ trialsFor # Null
    /\ trialsFor[1].sponsor = "Pfizer"
    /\ trialsFor[1].ptsRange = <<50, 100>>
    /\ trialsFor[1].limit = 50
    /\ trialsFor[1].order = "asc"
    /\ filters = InitialFilters

\* C3: applyClientSideFilters returns exactly the trials of its input with
\* lo <= pts <= hi, both bounds inclusive, in their original order; the trials with pts 85
\* and 20 under [50, 100] yield the first alone.
C3_PtsRangeFilterExact ==
    (call.fn = "applyClientSideFilters" /\ call.trialsData.isArray) =>
        LET in == call.trialsData.items
            out == call.ret
            kept == {i \in 1..Len(in) :
                        call.ptsRange[1] <= in[i].pts /\ in[i].pts <= call.ptsRange[2]}
            Rank(i) == Cardinality({j \in kept : j <= i})
        IN  /\ Len(out) = Cardinality(kept)
            /\ \A i \in kept : out[Rank(i)] = in[i]
            /\ (in = <<T1, T2>> /\ call.ptsRange = <<50, 100>>) => out = <<T1>>

\* The filter has dropped a trial from the middle of a list and kept one on the bound.
C3_Witness ==
    /\ call.fn = "applyClientSideFilters"
    /\ call.trialsData.items = <<T3, T2, T1>>
    /\ call.ptsRange = <<50, 100>>
    /\ call.ret = <<T3, T1>>

\* C4: for a loaded analytics snapshot, dashboardMetrics has mediumRisk = totalTrials -
\* highRisk - lowRisk, with highRisk, lowRisk and totalTrials copied from the summary,
\* also when inputs are zero; total 100, high 30, low 40 gives medium 30.
C4_MediumRiskIsRemainder ==
    (call.fn = "dashboardMetrics" /\ call.analyticsData # Null) =>
        LET summary == call.analyticsData[1].summary
            m == call.ret
        IN  /\ m.highRisk = summary.highRiskTrials
            /\ m.lowRisk = summary.lowRiskTrials
            /\ m.totalTrials = summary.totalTrials
            /\ m.mediumRisk + m.highRisk + m.lowRisk = m.totalTrials
            /\ (summary.totalTrials = 100 /\ summary.highRiskTrials = 30
                  /\ summary.lowRiskTrials = 40) => m.mediumRisk = 30
            /\ (summary.highRiskTrials = 0 /\ summary.lowRiskTrials = 0)
                  => m.mediumRisk = summary.totalTrials

\* The metrics of the snapshot with total 100, high 30, low 40 have been computed.
C4_Witness ==
    /\ call.fn = "dashboardMetrics"
    /\ call.analyticsData = Some(Snapshot(100, 30, 40))
    /\ call.ret.mediumRisk = 30
    /\ call.ret.highRisk = 30
    /\ call.ret.lowRisk = 40

\* C5: when a chat request fails, the step appends exactly one assistant message, the
\* fixed apology text, to the log (which holds the user message since the submission),
\* lets no exception escape, and leaves the processing flag false.
C5_ChatFailureApology ==
    [][lastEvent'.name = "chatRejected" =>
          /\ messages' = Append(messages,
                [type |-> "bot",
                 content |-> [type |-> "text",
                              message |-> "Sorry, I encountered an error processing your request."]])
          /\ ~isProcessing'
          /\ ~uncaught']_vars

\* A transport error has been absorbed: the log is the user message and the apology.
C5_Witness ==
    /\ lastEvent.name = "chatRejected"
    /\ lastEvent.text = TransportErrorText
    /\ Len(messages) = 2
    /\ messages[1] = UserMessage(<<"o", "r", "r">>)
    /\ messages[2].type = "bot"
    /\ messages[2].content.type = "text"
    /\ ~isProcessing

\* C6: the assistant is processing exactly while a chat request is in flight; submitting
\* a non-blank message from idle appends the user message, sets the flag and issues the
\* request; the completion of the request, success or failure, appends exactly one
\* assistant message and resets the flag.
C6_IdleProcessingIdle ==
    /\ [](isProcessing <=> Len(chatReqs) > 0)
    /\ [][/\ (lastEvent'.name = "sendMessage" /\ ~lastEvent'.blank) =>
                /\ ~isProcessing
                /\ isProcessing'
                /\ messages' = Append(messages, [type |-> "user", content |-> currentMessage])
                /\ chatReqs' = Append(chatReqs, [message |-> currentMessage])
          /\ lastEvent'.name \in {"chatResolved", "chatRejected"} =>
                /\ isProcessing
                /\ ~isProcessing'
                /\ Len(messages') = Len(messages) + 1
                /\ SubSeq(messages', 1, Len(messages)) = messages
                /\ messages'[Len(messages')].type = "bot"
                /\ Len(chatReqs') = Len(chatReqs) - 1]_vars

\* A second exchange has completed: user, assistant, user, assistant, and idle again.
C6_Witness ==
    /\ lastEvent.name = "chatResolved"
    /\ ~isProcessing
    /\ chatReqs = <<>>
    /\ Len(messages) = 4
    /\ messages[3].type = "user"
    /\ messages[4].type = "bot"

\* Parameter names the list-trials request may carry.
ServerParamNames ==
    {"sort", "order", "filter[therapeuticArea]", "filter[status]", "filter[sponsor]", "search"}

\* The query carries value v under `name`, or nothing under it when v is empty.
Carries(q, name, v) ==
    IF v = "" THEN name \notin DOMAIN q ELSE name \in DOMAIN q /\ q[name] = v

\* C7: every updateFilter and clearFilters call, also one that changes the PTS range
\* only, issues one new list-trials request carrying the search term, therapeutic area,
\* sponsor, status, sort field and sort direction of the new filter state; no request
\* carries the PTS range (or any other parameter).
C7_FilterChangeRefetches ==
    /\ [](\A i \in 1..Len(trialReqs) : DOMAIN trialReqs[i].query \subseteq ServerParamNames)
    /\ [][lastEvent'.name \in {"updateFilter", "clearFilters"} =>
            /\ Len(trialReqs') = Len(trialReqs) + 1
            /\ SubSeq(trialReqs', 1, Len(trialReqs)) = trialReqs
            /\ LET q == trialReqs'[Len(trialReqs')].query
               IN  /\ Carries(q, "search", filters'.searchTerm)
                   /\ Carries(q, "filter[therapeuticArea]", filters'.therapeuticArea)
                   /\ Carries(q, "filter[sponsor]", filters'.sponsor)
                   /\ Carries(q, "filter[status]", filters'.status)
                   /\ Carries(q, "sort", filters'.sort)
                   /\ Carries(q, "order", filters'.order)]_vars

\* A change of the PTS range alone has issued a request with the other filters' values.
C7_Witness ==
    /\ lastEvent.name = "updateFilter"
    /\ lastEvent.key = "ptsRange"
    /\ trialsFor # Null
    /\ filters.ptsRange = <<50, 100>>
    /\ trialsFor[1] = [filters EXCEPT !.ptsRange = <<0, 100>>]
    /\ Len(trialReqs) = 1
    /\ trialReqs[1].query =
          [k \in {"sort", "order", "filter[status]", "search"} |->
              CASE k = "sort" -> "enrollment" [] k = "order" -> "desc"
                [] k = "filter[status]" -> "Recruiting" [] k = "search" -> "T1"]

\* C8: a list-trials response is stored only when its request was issued for the filter
\* state in effect at the time it is stored.
C8_CommitOnlyCurrent ==
    lastEvent.name = "trialsFetched" => trialsFor = Some(filters)

\* C9: "Try Again" on the full-view error panel re-issues the request that failed: a
\* list-trials request when the list-trials fetch failed, an analytics request when the
\* analytics fetch failed.
C9_RetryReissuesFailed ==
    [][lastEvent'.name = "panelRetry" =>
          /\ error # NoError => Len(trialReqs') > Len(trialReqs)
          /\ aError # NoError => analyticsReqs' > analyticsReqs]_vars

\* C10: activating the retry affordance of the detail view after a failed SHAP fetch
\* re-issues the SHAP fetch for the same trial and puts the view back to loading.
C10_ShapRetryRefetches ==
    lastEvent.name = "shapRetry" =>
        /\ loadingShap
        /\ \E i \in 1..Len(shapReqs) :
              shapReqs[i].live /\ shapReqs[i].trialId = selectedTrial[1].id

\* C11: a failed SHAP fetch sets only the detail view's own error state: the selected
\* trial stays selected and the view stays open, and the trial list, the list-trials
\* loading and error flags, the analytics state, the filter state and the chat log are
\* unchanged.
C11_ShapFailureScoped ==
    [][lastEvent'.name = "shapFailed" =>
          /\ selectedTrial' = selectedTrial
          /\ ModalMounted => ModalMounted'
          /\ trials' = trials /\ totalTrials' = totalTrials
          /\ loading' = loading /\ error' = error
          /\ analyticsData' = analyticsData /\ aLoading' = aLoading /\ aError' = aError
          /\ filters' = filters
          /\ messages' = messages
          /\ shapData' = shapData
          /\ \E i \in 1..Len(shapReqs) :
                /\ shapReqs' = RemoveAt(shapReqs, i)
                /\ shapReqs[i].live => (shapError' \in ErrorTexts /\ ~loadingShap')]_vars

\* The SHAP request of an open detail view has failed: the view is still open on the same
\* trial over the loaded list and shows the failure's text.
C11_Witness ==
    /\ lastEvent.name = "shapFailed"
    /\ ModalMounted
    /\ selectedTrial = Some(T1)
    /\ shapError = HttpErrorText
    /\ ~loadingShap
    /\ shapReqs = <<>>
    /\ trials = <<T1, T2>>
    /\ error = NoError

\* C12: closing the detail view discards the explanation: while the view is closed no
\* explanation is held and no request can set one; every opening, also of a trial opened
\* before, starts with no explanation, loading, and a new SHAP request for the selected
\* trial; an explanation is stored only by a request of the current opening.
C12_NoShapCaching ==
    /\ [](~ModalMounted =>
            /\ shapData = Null
            /\ \A i \in 1..Len(shapReqs) : ~shapReqs[i].live)
    /\ [][/\ (~ModalMounted /\ ModalMounted') =>
                /\ shapData' = Null
                /\ loadingShap'
                /\ shapError' = NoError
                /\ Len(shapReqs') > Len(shapReqs)
                /\ SubSeq(shapReqs', 1, Len(shapReqs)) = shapReqs
                /\ \A i \in (Len(shapReqs) + 1)..Len(shapReqs') :
                      shapReqs'[i] = [trialId |-> selectedTrial'[1].id, live |-> TRUE]
          /\ (shapData' # Null /\ shapData' # shapData) =>
                /\ ModalMounted /\ ModalMounted'
                /\ \E i \in 1..Len(shapReqs) :
                      /\ shapReqs[i].live
                      /\ shapReqs' = RemoveAt(shapReqs, i)
                      /\ shapData' = Some(ShapOf(shapReqs[i].trialId))]_vars

\* The view was closed and opened again on the same trial; the response to the request of
\* the first opening has arrived and is not shown: the view is still loading, waiting for
\* its own request.
C12_Witness ==
    /\ lastEvent.name = "shapFetched"
    /\ ~strictMode
    /\ ModalMounted
    /\ selectedTrial = Some(T1)
    /\ shapData = Null
    /\ loadingShap
    /\ shapReqs = <<[trialId |-> "T1", live |-> TRUE]>>

\* C13: the analytics snapshot is requested exactly once when the dashboard mounts and by
\* no other step: no filter change, trial refetch, retry, tab switch or response issues an
\* analytics request (refetchAnalytics is wired to no control).
C13_AnalyticsOnceOnMount ==
    [][analyticsReqs' > analyticsReqs =>
          /\ lastEvent'.name = "mount"
          /\ analyticsReqs' = analyticsReqs + 1]_vars

\* The parts of a text.
Parts(text) == {text[i] : i \in 1..Len(text)}

\* The message of the server in a response body, <<>> when there is none.
ServerMessage(response) ==
    IF response.body.json /\ "message" \in DOMAIN response.body.value
    THEN response.body.value.message
    ELSE <<>>

\* C14: each of the four gateway operations, on a response whose status is not
\* successful, fails with an error carrying the status code (for chat: the message the
\* server supplied when there is one, otherwise the status code); on a successful response
\* it returns the data field of the parsed envelope; it calls fetch once.
C14_GatewayContract ==
    call.fn \in GatewayOps =>
        LET response == call.response
            out == call.ret
        IN  /\ out.fetches = 1
            /\ (response.arrived /\ ~Ok(response)) =>
                  /\ out.kind = "throw"
                  /\ IF call.fn = "sendChatMessage" /\ ServerMessage(response) # <<>>
                     THEN out.message = ServerMessage(response)
                     ELSE StatusText(response.status) \in Parts(out.message)
            /\ (response.arrived /\ Ok(response) /\ response.body.json) =>
                  /\ out.kind = "return"
                  /\ out.value = DataField(response.body.value)

\* C15: when a list-trials or analytics request has failed with a non-success HTTP status,
\* the text the blocking error panel shows is the text of a failure (the one containing
\* the status code, or that of the other hook's failure when both failed).
C15_PanelShowsFailureText ==
    (mounted /\ View = "error" /\ HttpErrorText \in {error, aError}) =>
        PanelErrorText \in ({error, aError} \ {NoError})

\* The lower-cased query of the last call contains the text.
QueryHas(text) == includes(toLowerCase(call.query), text)

\* C16: for every query whose lower-cased text contains both "highest pts" and
\* "oncology", generateMockChatResponse returns the oncology table (type 'table'), also
\* when the query contains the substrings of other rules ("orr", or "sponsors" with
\* "pts > 80").
C16_OncologyTableFirst ==
    (call.fn = "generateMockChatResponse"
        /\ QueryHas(<<"h", "i", "g", "h", "e", "s", "t", " ", "p", "t", "s">>)
        /\ QueryHas(<<"o", "n", "c", "o", "l", "o", "g", "y">>)) =>
        /\ call.ret.type = "table"
        /\ call.ret.title = "Top 5 Oncology Trials by PTS Score"
        /\ \A i \in 1..Len(call.ret.data) : call.ret.data[i].therapeuticArea = "Oncology"

\* A query with the substrings of the first three rules, in mixed case, got the table of
\* the oncology trials of the context, highest pts first.
C16_Witness ==
    /\ call.fn = "generateMockChatResponse"
    /\ call.query = JoinPhrases(<<1, 2, 3, 4, 5>>)
    /\ call.query[1] = "H"
    /\ QueryHas(SponsorsText) /\ QueryHas(PtsOver80Text) /\ QueryHas(OrrText)
    /\ call.context = <<T2, T3, T1>>
    /\ call.ret.type = "table"
    /\ call.ret.data = <<T1, T3>>

\* C17: for every query that matches none of the four trigger rules, the result is the
\* default response of type 'text' with the fixed default message, whatever the trial
\* context.
C17_DefaultResponse ==
    (call.fn = "generateMockChatResponse"
        /\ ~(QueryHas(HighestPtsText) /\ QueryHas(OncologyText))
        /\ ~(QueryHas(SponsorsText) /\ QueryHas(PtsOver80Text))
        /\ ~(QueryHas(ObjectiveResponseRateText) \/ QueryHas(OrrText))
        /\ ~(QueryHas(Top5FeaturesText) /\ QueryHas(FailuresText))) =>
        call.ret =
            [type |-> "text",
             message |-> "I understand your query, but I need more specific information to provide accurate insights. Try asking about specific sponsors, therapeutic areas, or trial characteristics."]

\* A query holding one substring of each two-substring rule, over a context with trials,
\* got the default text.
C17_Witness ==
    /\ call.fn = "generateMockChatResponse"
    /\ call.query = JoinPhrases(<<8, 3, 2>>)
    /\ call.context = <<T2, T3, T1>>
    /\ call.ret.type = "text"
    /\ call.ret = DefaultResponse

\* C18: the PTS-range filter is idempotent: filtering its own result again with the same
\* bounds gives that result.
C18_PtsFilterIdempotent ==
    (call.fn = "applyClientSideFilters" /\ call.trialsData.isArray) =>
        applyClientSideFilters(Arr(call.ret), call.ptsRange) = call.ret

\* The filter has dropped a trial and kept two; filtering the two again keeps both.
C18_Witness ==
    /\ call.fn = "applyClientSideFilters"
    /\ call.trialsData = Arr(<<T1, T2, T3>>)
    /\ call.ptsRange = <<50, 100>>
    /\ call.ret = <<T1, T3>>
    /\ applyClientSideFilters(Arr(<<T1, T3>>), <<50, 100>>) = <<T1, T3>>

\* C19: applyClientSideFilters given an input that is not a sequence (null, undefined, an
\* object, a number) returns the empty sequence.
C19_NonArrayGivesEmpty ==
    (call.fn = "applyClientSideFilters" /\ ~call.trialsData.isArray) => call.ret = <<>>

\* The filter was called on null and returned the empty list.
C19_Witness ==
    /\ call.fn = "applyClientSideFilters"
    /\ call.trialsData = NotArr("null")
    /\ call.ret = <<>>

\* C20: the chat log is append-only: every step other than clearMessages leaves the
\* messages already in the log where they are, unaltered, and sendMessage (its start and
\* the completion of its request) adds at most one message at the end; clearMessages, the
\* only step that removes messages, empties the whole log.
C20_ChatLogAppendOnly ==
    [][/\ lastEvent'.name # "clearMessages" =>
            /\ Len(messages') >= Len(messages)
            /\ SubSeq(messages', 1, Len(messages)) = messages
       /\ lastEvent'.name \in {"sendMessage", "chatResolved", "chatRejected"} =>
            Len(messages') <= Len(messages) + 1
       /\ lastEvent'.name = "clearMessages" => messages' = <<>>]_vars

\* After a first exchange that failed, a second message was sent: the log holds the first
\* user message and the apology in place, and the new user message at its end.
C20_Witness ==
    /\ lastEvent.name = "sendMessage"
    /\ ~lastEvent.blank
    /\ Len(messages) = 3
    /\ messages[1] = UserMessage(<<"o", "r", "r">>)
    /\ messages[2] = ApologyMessage
    /\ messages[3] = UserMessage(<<" ", "h", "i", " ">>)
    /\ isProcessing

\* C21: no local operation mutates the fetched trial list: after applying the PTS-range
\* filter, and after computing a fallback assistant response (its sort of the oncology
\* trials included), the list handed in holds the same trials in the same order.
C21_TrialListNotMutated ==
    /\ call.fn = "applyClientSideFiltersEffect" => call.heap.trialsData = call.before
    /\ call.fn = "generateMockChatResponseEffect" => call.heap.context = call.before

\* The oncology rule has run on a list that is not in pts order: the table holds the
\* oncology trials sorted, and the list is as it was.
C21_Witness ==
    /\ call.fn = "generateMockChatResponseEffect"
    /\ call.query = JoinPhrases(<<1, 2>>)
    /\ call.before = <<T2, T3, T1>>
    /\ call.ret.type = "table"
    /\ call.heap.oncologyTrials = <<T1, T3>>
    /\ call.ret.data = call.heap.oncologyTrials
    /\ call.heap.context = <<T2, T3, T1>>
    /\ call.heap.filtered = <<T1, T3>>

\* C22: when list-trials requests overlap, every successful response is stored as it
\* arrives, so the stored list is that of the request whose response arrived last,
\* whichever request was issued last; a filter change or retry leaves the requests in
\* flight in place (none is cancelled).
C22_LastArrivalWins ==
    [][/\ lastEvent'.name = "trialsFetched" =>
            /\ totalTrials' = Len(trials')
            /\ \E i \in 1..Len(trialReqs) :
                  /\ trialReqs' = RemoveAt(trialReqs, i)
                  /\ trialsFor' = Some(trialReqs[i].filters)
       /\ lastEvent'.name \in {"updateFilter", "clearFilters", "panelRetry"} =>
            /\ Len(trialReqs') = Len(trialReqs) + 1
            /\ SubSeq(trialReqs', 1, Len(trialReqs)) = trialReqs]_vars

\* Two requests overlapped, the one issued for an earlier filter state was answered last,
\* and its list is the one stored, under a filter state it was not issued for.
C22_Witness ==
    /\ lastEvent.name = "trialsFetched"
    /\ trialReqs = <<>>
    /\ filters.searchTerm = "T1"
    /\ trialsFor = Some(InitialFilters)
    /\ trials = <<T3>>
    /\ ~loading

\* C23: starting a list-trials request sets loading and clears the error; a successful
\* completion stores the data, with error null and loading false; a failed completion
\* stores the error message and sets loading false; while a single request is in flight,
\* loading and a non-null error do not hold together.
C23_TrialsCacheStates ==
    /\ [](Len(trialReqs) = 1 => ~(loading /\ error # NoError))
    /\ [][/\ Len(trialReqs') > Len(trialReqs) => (loading' /\ error' = NoError)
          /\ lastEvent'.name = "trialsFetched" =>
                /\ trialsFor' # Null
                /\ totalTrials' = Len(trials')
                /\ error' = NoError
                /\ ~loading'
          /\ lastEvent'.name = "trialsFailed" =>
                /\ error' \in ErrorTexts
                /\ ~loading']_vars

\* C24: generateMockChatResponse takes the first rule, in the order table, list, summary,
\* features, default text, whose substrings occur in the lower-cased query: matching is
\* case-insensitive and a query matching several rules gets the earliest one.
C24_FirstMatchingRule ==
    call.fn = "generateMockChatResponse" =>
        LET lower == toLowerCase(call.query)
            rule1 == includes(lower, HighestPtsText) /\ includes(lower, OncologyText)
            rule2 == includes(lower, SponsorsText) /\ includes(lower, PtsOver80Text)
            rule3 == includes(lower, ObjectiveResponseRateText) \/ includes(lower, OrrText)
            rule4 == includes(lower, Top5FeaturesText) /\ includes(lower, FailuresText)
            expected == IF rule1 THEN "table"
                        ELSE IF rule2 THEN "list"
                        ELSE IF rule3 THEN "summary"
                        ELSE IF rule4 THEN "features"
                        ELSE "text"
        IN  /\ call.ret.type = expected
            /\ call.ret.type = "table" =>
                  call.ret.title = "Top 5 Oncology Trials by PTS Score"
            /\ call.ret.type = "list" =>
                  call.ret.title = "Sponsors with Most High-PTS Trials (>80%)"
            /\ call.ret.type = "summary" =>
                  call.ret.title = "Trials with Objective Response Rate (ORR) Endpoint"
            /\ call.ret.type = "features" =>
                  call.ret.title = "Top 5 Features Contributing to Trial Failures"
            /\ call.ret.type = "text" => "title" \notin DOMAIN call.ret

\* A query with the substrings of the rules two, three (in capitals) and four, and half
\* of rule one, got the sponsor list.
C24_Witness ==
    /\ call.fn = "generateMockChatResponse"
    /\ call.query = JoinPhrases(<<8, 7, 6, 4, 3, 2>>)
    /\ call.query[Len(FailuresText) + Len(Top5FeaturesText) + 3] = "O"
    /\ call.context = <<T2, T3, T1>>
    /\ call.ret.type = "list"
    /\ call.ret.data = <<<<"Pfizer", ": ", 1, " trials">>>>

\* C25: the list-trials loading flag is true in every state in which a list-trials
\* request is in flight, also when requests overlap: the completion of one request does
\* not clear it while another is pending.
C25_LoadingWhilePending ==
    Len(trialReqs) > 0 => loading

\* C26: in every reachable state the chat log alternates user, assistant, user, ...,
\* starting with a user message, so that each assistant message directly follows the
\* user message it answers; also when clearMessages runs while a request is processing.
C26_ChatLogAlternates ==
    \A i \in 1..Len(messages) :
        messages[i].type = IF i % 2 = 1 THEN "user" ELSE "bot"

\* The detail view shows a loaded explanation (its render tests loadingShap, shapError and
\* shapData in this order).
ShapShown == ModalMounted /\ ~loadingShap /\ shapError = NoError /\ shapData # Null

\* C27: whenever the detail view shows a loaded SHAP explanation, it is the response to
\* the request for the selected trial's identifier; no response for a trial selected
\* before is shown for another trial, for any order of open, close, reopen and arrival.
C27_ShapMatchesSelected ==
    ShapShown => shapData = Some(ShapOf(selectedTrial[1].id))

\* The view of T2, opened after that of T1 was closed, shows the explanation of T2 while
\* the request of the closed view of T1 is still in flight.
C27_Witness ==
    /\ ShapShown
    /\ selectedTrial = Some(T2)
    /\ shapData[1].trialId = "T2"
    /\ shapReqs = <<[trialId |-> "T1", live |-> FALSE]>>

\* C28: in every reachable filter state page = 1: the initial state, every
\* updateFilter(key, value), also with key = 'page' and any value, and every clearFilters
\* leave page at 1.
C28_PageAlwaysOne ==
    /\ filters.page = 1
    /\ \A i \in 1..Len(trialReqs) : trialReqs[i].filters.page = 1

\* updateFilter('page', 2) has run on a state with other fields set, and page is 1.
C28_Witness ==
    /\ lastEvent.name = "updateFilter"
    /\ lastEvent.key = "page"
    /\ lastEvent.value = 2
    /\ filters.limit = 50
    /\ filters.searchTerm = "T1"
    /\ filters.page = 1

\* C29: a failed list-trials request leaves the stored trial list and totalTrials as they
\* were: of the trials hook's state only error and loading change; the list then stays
\* until a request succeeds (no other step changes it).
C29_FailureKeepsList ==
    [][/\ lastEvent'.name = "trialsFailed" =>
            /\ trials' = trials
            /\ totalTrials' = totalTrials
            /\ trialsFor' = trialsFor
            /\ error' \in ErrorTexts
            /\ ~loading'
       /\ (trials' # trials \/ totalTrials' # totalTrials) =>
            lastEvent'.name = "trialsFetched"]_vars

\* A request issued after a list was stored has failed: the error is set and the list of
\* the earlier request is still stored.
C29_Witness ==
    /\ lastEvent.name = "trialsFailed"
    /\ error = HttpErrorText
    /\ ~loading
    /\ trials = <<T1, T2>>
    /\ totalTrials = 2
    /\ trialsFor = Some(InitialFilters)
    /\ filters.sort = "enrollment"
    /\ trialReqs = <<>>

\* C30: sendMessage called with an empty or whitespace-only message is a no-op: the
\* message log and the processing flag are unchanged and no chat request is issued.
C30_BlankMessageNoOp ==
    [][(/\ lastEvent'.name = "sendMessage"
        /\ \A i \in 1..Len(currentMessage) : currentMessage[i] \in {" ", "\t", "\n"}) =>
          /\ messages' = messages
          /\ isProcessing' = isProcessing
          /\ chatReqs' = chatReqs]_vars

\* After a completed exchange, Enter on a blank input called sendMessage: the log still
\* holds the two messages, nothing is processing and no request is in flight.
C30_Witness ==
    /\ lastEvent.name = "sendMessage"
    /\ lastEvent.blank
    /\ Len(messages) = 2
    /\ messages[1].type = "user"
    /\ messages[2].type = "bot"
    /\ ~isProcessing
    /\ chatReqs = <<>>

====
